---- MODULE Spec2Model ----
(***************************************************************************)
(* Model of medragneel/iska: splitter.py (split a bordereau PDF into one   *)
(* document per DZ code), print.py (send every split PDF to the printer).  *)
(*                                                                         *)
(* Three specifications share the module:                                  *)
(*   Spec         split_pdf_by_dz, run twice on the same input             *)
(*   SpecExtract  extract_dz_code applied to every bounded text            *)
(*   SpecPrint    print_pdfs_in_folders over a bounded directory tree      *)
(***************************************************************************)
EXTENDS Integers, Sequences, FiniteSets, TLC

VARIABLES
    \* ---- splitter.py: split_pdf_by_dz ----
    pages,           \* pdf_reader.pages: what extract_text does on each page
    pc,              \* position in split_pdf_by_dz
    run,             \* 1 = first call of split_pdf_by_dz, 2 = second call
    page_num,        \* loop index (1-based here, 0-based in the source)
    current_client,  \* <<>> for None, <<ClientDocument>> otherwise
    out_exists,      \* os.path.exists(output_dir)
    dirs,            \* the DZ sub-directories of output_dir
    files,           \* output path -> file content
    error,           \* the exception that left split_pdf_by_dz, or "none"
    warnings,        \* logger.warning calls of the current run
    save_calls,      \* groups handed to save_client_document in this run
    flushed,         \* groups save_client_document wrote completely
    no_pages_taken,  \* the 'No pages to save' branch was taken
    dirs1, files1,   \* dirs and files when the first run returned
    \* ---- splitter.py: extract_dz_code on its own ----
    text, result, epc,
    \* ---- print.py: print_pdfs_in_folders ----
    base_exists,     \* os.path.exists(base_directory)
    base_listing,    \* os.listdir(base_directory), in directory order
    is_dir,          \* entry of base_directory -> os.path.isdir
    folder_listing,  \* entry of base_directory -> os.listdir of it
    ppc,             \* position in print_pdfs_in_folders
    folders,         \* the folders still to visit
    folder,          \* the folder being printed
    pdf_files,       \* the files of that folder still to print
    jobs,            \* <<folder, file>> handed to print_file, in order
    total_printed, failed_prints,
    slept            \* seconds spent in time.sleep

vars == <<pages, pc, run, page_num, current_client, out_exists, dirs, files,
          error, warnings, save_calls, flushed, no_pages_taken, dirs1, files1,
          text, result, epc,
          base_exists, base_listing, is_dir, folder_listing, ppc, folders,
          folder, pdf_files, jobs, total_printed, failed_prints, slept>>

splitVars == <<pages, pc, run, page_num, current_client, out_exists, dirs,
               files, error, warnings, save_calls, flushed, no_pages_taken,
               dirs1, files1>>
extractVars == <<text, result, epc>>
printVars == <<base_exists, base_listing, is_dir, folder_listing, ppc, folders,
               folder, pdf_files, jobs, total_printed, failed_prints, slept>>

(***************************************************************************)
(* Bounds                                                                  *)
(***************************************************************************)
MaxTextLen == 6      \* longest text given to extract_dz_code on its own
MaxPages == 4        \* longest input document
MaxFolderFiles == 2  \* most entries in one folder of base_directory

(***************************************************************************)
(* Generic helpers                                                         *)
(***************************************************************************)
SeqsUpTo(S, n) == UNION {[1..k -> S] : k \in 0..n}

Range(s) == {s[i] : i \in 1..Len(s)}

Min(S) == CHOOSE x \in S : \A y \in S : x <= y

(***************************************************************************)
(* splitter.py: extract_dz_code                                            *)
(***************************************************************************)
Alphabet == {"D", "Z", "d", "z", "1", "2"}

\* \d of the pattern
IsDigit(c) == c \in {"0", "1", "2", "3", "4", "5", "6", "7", "8", "9"}

None == <<>>

\* the pattern written DZ(\d) : one digit only
DigitRunEnd_OneDigit(t, j) == j

\* (\d+) is greedy: the end of the digit run that starts at position j
RECURSIVE DigitRunEnd(_, _)
DigitRunEnd(t, j) ==
    IF j + 1 <= Len(t) /\ IsDigit(t[j + 1]) THEN DigitRunEnd(t, j + 1) ELSE j

\* the pattern DZ(\d+) anchored at position i: group(1), or None
MatchAt(t, i) ==
    IF /\ i + 2 <= Len(t)
       /\ t[i] = "D"
       /\ t[i + 1] = "Z"
       /\ IsDigit(t[i + 2])
    THEN SubSeq(t, i + 2, DigitRunEnd(t, i + 2))
    ELSE None

\* re.search: the match at the first position where the pattern matches
RECURSIVE re_search(_, _)
re_search(t, i) ==
    IF i > Len(t) THEN None
    ELSE IF MatchAt(t, i) # None THEN MatchAt(t, i)
    ELSE re_search(t, i + 1)

extract_dz_code(t) ==
    LET match == re_search(t, 1)
    IN IF match # None THEN <<"D", "Z">> \o match ELSE None

(***************************************************************************)
(* SpecExtract: extract_dz_code on every text of at most MaxTextLen chars  *)
(***************************************************************************)
SplitIdle ==
    /\ pages = <<>> /\ pc = "idle" /\ run = 0 /\ page_num = 0
    /\ current_client = <<>> /\ out_exists = FALSE /\ dirs = {}
    /\ files = <<>> /\ error = "none" /\ warnings = 0 /\ save_calls = <<>>
    /\ flushed = <<>> /\ no_pages_taken = FALSE /\ dirs1 = {} /\ files1 = <<>>

ExtractIdle == text = <<>> /\ result = None /\ epc = "idle"

PrintIdle ==
    /\ base_exists = FALSE /\ base_listing = <<>> /\ is_dir = <<>>
    /\ folder_listing = <<>> /\ ppc = "idle" /\ folders = <<>>
    /\ folder = <<>> /\ pdf_files = <<>> /\ jobs = <<>>
    /\ total_printed = 0 /\ failed_prints = <<>> /\ slept = 0

InitExtract ==
    /\ text \in SeqsUpTo(Alphabet, MaxTextLen)
    /\ result = None
    /\ epc = "call"
    /\ SplitIdle
    /\ PrintIdle

CallExtract ==
    /\ epc = "call"
    /\ result' = extract_dz_code(text)
    /\ epc' = "returned"
    /\ UNCHANGED <<text, splitVars, printVars>>

NextExtract == CallExtract

SpecExtract == InitExtract /\ [][NextExtract]_vars

\* the positions where 'DZ' is immediately followed by a decimal digit
Candidates(t) ==
    {i \in 1..Len(t) : /\ i + 2 <= Len(t)
                       /\ t[i] = "D" /\ t[i + 1] = "Z" /\ IsDigit(t[i + 2])}

\* the last position of the maximal run of digits that starts at position j
MaximalRunEnd(t, j) ==
    CHOOSE e \in j..Len(t) :
        /\ \A k \in j..e : IsDigit(t[k])
        /\ e = Len(t) \/ ~IsDigit(t[e + 1])

\* C9: extract_dz_code returns the leftmost 'DZ'+digits occurrence with its
\* maximal run of digits, and 'no marker' (None) when the text has no such
\* occurrence (empty text and lower-case 'dz' included).
C9_FirstMarker ==
    epc = "returned" =>
        IF Candidates(text) = {}
        THEN result = None
        ELSE LET i == Min(Candidates(text))
             IN result = SubSeq(text, i, MaximalRunEnd(text, i + 2))

\* a text with two candidates: the first one is returned
C9_Witness ==
    /\ epc = "returned"
    /\ Cardinality(Candidates(text)) = 2
    /\ result = <<"D", "Z", "1">>

\* a text with a lower-case prefix only yields no marker
C9_WitnessLower ==
    /\ epc = "returned"
    /\ text = <<"d", "z", "1">>
    /\ result = None

(***************************************************************************)
(* splitter.py: ClientDocument, save_client_document, split_pdf_by_dz      *)
(***************************************************************************)
\* the texts page.extract_text() yields in the split runs
PageTexts ==
    { <<>>,
      <<"d", "z", "1">>,
      <<"D", "Z", "1">>,
      <<"z", "D", "Z", "2", "D", "Z", "1">> }

\* a page: extract_text() raises, or returns a text
PageKinds ==
    {[raises |-> TRUE, text |-> <<>>]}
        \cup {[raises |-> FALSE, text |-> t] : t \in PageTexts}

Markers == {extract_dz_code(t) : t \in PageTexts} \ {None}

\* os.path.splitext(os.path.basename(input_pdf_path))[0]
base_filename == <<"b">>

\* os.path.join(dz_directory, f"{base_filename}_{dz_code}.pdf")
output_path(dz_code) ==
    <<dz_code, base_filename \o <<"_">> \o dz_code \o <<".", "p", "d", "f">>>>

Paths == {output_path(m) : m \in Markers}

NoFile == [exists |-> FALSE, content |-> <<>>, intact |-> FALSE]

\* a file left in the output root by an earlier, unrelated run (page 0)
StaleFile == [exists |-> TRUE, content |-> <<0>>, intact |-> TRUE]

\* ClientDocument(dz_code=dz_code, pages=[]) : the opening page left out
NewClient_NoPage(dz_code, page) == [dz_code |-> dz_code, pages |-> <<>>]

\* ClientDocument(dz_code=dz_code, pages=[page], original_filename=...)
NewClient(dz_code, page) == [dz_code |-> dz_code, pages |-> <<page>>]

\* the ways one call of save_client_document can end
SaveOutcomes(client_doc, ds) ==
    {[kind |-> "ok", written |-> 0], [kind |-> "open_fail", written |-> 0]}
        \cup (IF client_doc.dz_code \in ds THEN {}
              ELSE {[kind |-> "mkdir_fail", written |-> 0]})
        \cup {[kind |-> "write_fail", written |-> k] :
                 k \in 0..(Len(client_doc.pages) - 1)}

\* lines 53-54: what open(output_path, mode) followed by the write of
\* 'written' pages leaves in the file; 'complete' says the write finished.
\* Mode "wb" truncates the file when it is opened.
write_output(old, mode, written, complete) ==
    CASE mode = "ab" ->
            [exists |-> TRUE, content |-> old.content \o written,
             intact |-> complete /\ (old.intact \/ ~old.exists)]
      [] mode = "keep" /\ old.exists -> old
      [] OTHER ->
            [exists |-> TRUE, content |-> written, intact |-> complete]

\* lines 31-56 with the mode of open() left open
save_with_mode(client_doc, ds, fs, outcome, mode) ==
    IF client_doc.pages = <<>>
    THEN [dirs |-> ds, files |-> fs, raised |-> FALSE, no_pages |-> TRUE]
    ELSE LET ds2 == ds \cup {client_doc.dz_code}
             path == output_path(client_doc.dz_code)
         IN CASE outcome.kind = "mkdir_fail" ->
                    [dirs |-> ds, files |-> fs, raised |-> TRUE,
                     no_pages |-> FALSE]
              [] outcome.kind = "open_fail" ->
                    [dirs |-> ds2, files |-> fs, raised |-> TRUE,
                     no_pages |-> FALSE]
              [] outcome.kind = "write_fail" ->
                    [dirs |-> ds2,
                     files |-> [fs EXCEPT ![path] =
                        write_output(fs[path], mode,
                            SubSeq(client_doc.pages, 1, outcome.written),
                            FALSE)],
                     raised |-> TRUE, no_pages |-> FALSE]
              [] OTHER ->
                    [dirs |-> ds2,
                     files |-> [fs EXCEPT ![path] =
                        write_output(fs[path], mode, client_doc.pages, TRUE)],
                     raised |-> FALSE, no_pages |-> FALSE]

\* save_client_document opening the file with open(output_path, "ab")
save_client_document_Append(client_doc, ds, fs, outcome) ==
    save_with_mode(client_doc, ds, fs, outcome, "ab")

\* save_client_document returning early when output_path already exists
save_client_document_KeepExisting(client_doc, ds, fs, outcome) ==
    save_with_mode(client_doc, ds, fs, outcome, "keep")

\* save_client_document: the directories and files it leaves, and whether it
\* raised.  open(output_path, "wb") truncates the file before anything is
\* written to it, so a failing write leaves a file cut short.
save_client_document(client_doc, ds, fs, outcome) ==
    save_with_mode(client_doc, ds, fs, outcome, "wb")

\* an exception raised inside save_client_document is caught and logged
Raised_Caught(r) == FALSE

\* split_pdf_by_dz has no try/except around save_client_document: what it
\* raises leaves split_pdf_by_dz
Raised(r) == r.raised

Init ==
    /\ pages \in SeqsUpTo(PageKinds, MaxPages)
    /\ pc = "start"
    /\ run = 1
    /\ page_num = 0
    /\ current_client = <<>>
    /\ out_exists \in BOOLEAN
    /\ dirs \in SUBSET Markers
    /\ files \in [Paths -> {NoFile, StaleFile}]
    /\ out_exists = FALSE => dirs = {}
    /\ \A m \in Markers : files[output_path(m)].exists => m \in dirs
    /\ error = "none"
    /\ warnings = 0
    /\ save_calls = <<>>
    /\ flushed = <<>>
    /\ no_pages_taken = FALSE
    /\ dirs1 = {}
    /\ files1 = [p \in Paths |-> NoFile]
    /\ ExtractIdle
    /\ PrintIdle

\* lines 62-68, 73: the output root is created, the input opens
OpenPdf ==
    /\ pc = "start"
    /\ out_exists' = TRUE
    /\ pc' = "loop"
    /\ page_num' = 1
    /\ current_client' = <<>>
    /\ UNCHANGED <<pages, run, dirs, files, error, warnings, save_calls,
                   flushed, no_pages_taken, dirs1, files1>>
    /\ UNCHANGED <<extractVars, printVars>>

\* lines 62-71: the output root is created, PdfReader raises
OpenPdfFails ==
    /\ pc = "start"
    /\ out_exists' = TRUE
    /\ pc' = "failed"
    /\ error' = "open"
    /\ UNCHANGED <<pages, run, page_num, current_client, dirs, files,
                   warnings, save_calls, flushed, no_pages_taken, dirs1,
                   files1>>
    /\ UNCHANGED <<extractVars, printVars>>

InLoop == pc = "loop" /\ page_num <= Len(pages)

\* page.extract_text() wrapped in try/except: the failure is logged and the
\* page handled as a page without a DZ code
ExtractRaises_Caught ==
    /\ InLoop
    /\ pages[page_num].raises
    /\ IF current_client # <<>>
       THEN /\ current_client' =
                   <<[current_client[1] EXCEPT
                         !.pages = Append(current_client[1].pages, page_num)]>>
            /\ UNCHANGED warnings
       ELSE /\ warnings' = warnings + 1
            /\ UNCHANGED current_client
    /\ page_num' = page_num + 1
    /\ UNCHANGED <<pages, pc, run, out_exists, dirs, files, error,
                   save_calls, flushed, no_pages_taken, dirs1, files1>>
    /\ UNCHANGED <<extractVars, printVars>>

\* line 78: page.extract_text() raises; nothing in split_pdf_by_dz catches it
ExtractRaises ==
    /\ InLoop
    /\ pages[page_num].raises
    /\ pc' = "failed"
    /\ error' = "extract"
    /\ UNCHANGED <<pages, run, page_num, current_client, out_exists, dirs,
                   files, warnings, save_calls, flushed, no_pages_taken,
                   dirs1, files1>>
    /\ UNCHANGED <<extractVars, printVars>>

\* what one call save_client_document(current_client, output_dir) does to
\* the state, the call ending as 'outcome' says; next_pc is where
\* split_pdf_by_dz goes on when the call returns
SaveStep(client_doc, outcome, next_pc) ==
    LET r == save_client_document(client_doc, dirs, files, outcome)
    IN /\ dirs' = r.dirs
       /\ files' = r.files
       /\ save_calls' = Append(save_calls,
              [dz_code |-> client_doc.dz_code, pages |-> client_doc.pages,
               outcome |-> IF r.no_pages THEN "no_pages" ELSE outcome.kind])
       /\ flushed' = IF r.raised \/ r.no_pages THEN flushed
                     ELSE Append(flushed, client_doc)
       /\ no_pages_taken' = (no_pages_taken \/ r.no_pages)
       /\ IF Raised(r)
          THEN pc' = "failed" /\ error' = "write"
          ELSE pc' = next_pc /\ UNCHANGED error

\* lines 81-88: a page with a DZ code closes the open group and opens a new one
MarkerPage ==
    /\ InLoop
    /\ ~pages[page_num].raises
    /\ LET dz_code == extract_dz_code(pages[page_num].text)
       IN /\ dz_code # None
          /\ IF current_client # <<>>
             THEN \E outcome \in SaveOutcomes(current_client[1], dirs) :
                      SaveStep(current_client[1], outcome, "loop")
             ELSE UNCHANGED <<dirs, files, save_calls, flushed,
                              no_pages_taken, pc, error>>
          /\ IF pc' = "failed"
             THEN UNCHANGED <<current_client, page_num>>
             ELSE /\ current_client' = <<NewClient(dz_code, page_num)>>
                  /\ page_num' = page_num + 1
    /\ UNCHANGED <<pages, run, out_exists, warnings, dirs1, files1>>
    /\ UNCHANGED <<extractVars, printVars>>

\* the continuation page is logged but never appended
ContinuationPage_Dropped ==
    /\ InLoop
    /\ ~pages[page_num].raises
    /\ extract_dz_code(pages[page_num].text) = None
    /\ current_client # <<>>
    /\ page_num' = page_num + 1
    /\ UNCHANGED <<pages, pc, run, current_client, out_exists, dirs, files,
                   error, warnings, save_calls, flushed, no_pages_taken,
                   dirs1, files1>>
    /\ UNCHANGED <<extractVars, printVars>>

\* lines 89-91: a page without a DZ code joins the open group
ContinuationPage ==
    /\ InLoop
    /\ ~pages[page_num].raises
    /\ extract_dz_code(pages[page_num].text) = None
    /\ current_client # <<>>
    /\ current_client' =
           <<[current_client[1] EXCEPT
                 !.pages = Append(current_client[1].pages, page_num)]>>
    /\ page_num' = page_num + 1
    /\ UNCHANGED <<pages, pc, run, out_exists, dirs, files, error, warnings,
                   save_calls, flushed, no_pages_taken, dirs1, files1>>
    /\ UNCHANGED <<extractVars, printVars>>

\* the orphan page raises instead of being logged
OrphanPage_Raises ==
    /\ InLoop
    /\ ~pages[page_num].raises
    /\ extract_dz_code(pages[page_num].text) = None
    /\ current_client = <<>>
    /\ pc' = "failed"
    /\ error' = "orphan"
    /\ UNCHANGED <<pages, run, page_num, current_client, out_exists, dirs,
                   files, warnings, save_calls, flushed, no_pages_taken,
                   dirs1, files1>>
    /\ UNCHANGED <<extractVars, printVars>>

\* lines 92-93: a page without a DZ code and no open group: a warning only
OrphanPage ==
    /\ InLoop
    /\ ~pages[page_num].raises
    /\ extract_dz_code(pages[page_num].text) = None
    /\ current_client = <<>>
    /\ warnings' = warnings + 1
    /\ page_num' = page_num + 1
    /\ UNCHANGED <<pages, pc, run, current_client, out_exists, dirs, files,
                   error, save_calls, flushed, no_pages_taken, dirs1, files1>>
    /\ UNCHANGED <<extractVars, printVars>>

\* the loop is over and the open group is forgotten
EndOfInput_NoFlush ==
    /\ pc = "loop"
    /\ page_num > Len(pages)
    /\ pc' = "done"
    /\ UNCHANGED <<pages, run, page_num, current_client, out_exists, dirs,
                   files, error, warnings, save_calls, flushed,
                   no_pages_taken, dirs1, files1>>
    /\ UNCHANGED <<extractVars, printVars>>

\* lines 95-96: the loop is over, the open group is saved
EndOfInput ==
    /\ pc = "loop"
    /\ page_num > Len(pages)
    /\ IF current_client # <<>>
       THEN \E outcome \in SaveOutcomes(current_client[1], dirs) :
                SaveStep(current_client[1], outcome, "done")
       ELSE /\ pc' = "done"
            /\ UNCHANGED <<dirs, files, save_calls, flushed, no_pages_taken,
                           error>>
    /\ UNCHANGED <<pages, run, page_num, current_client, out_exists,
                   warnings, dirs1, files1>>
    /\ UNCHANGED <<extractVars, printVars>>

\* split_pdf_by_dz is called again on the same input and output root
SecondRun ==
    /\ pc = "done"
    /\ run = 1
    /\ run' = 2
    /\ pc' = "start"
    /\ page_num' = 0
    /\ current_client' = <<>>
    /\ warnings' = 0
    /\ save_calls' = <<>>
    /\ flushed' = <<>>
    /\ dirs1' = dirs
    /\ files1' = files
    /\ UNCHANGED <<pages, out_exists, dirs, files, error, no_pages_taken>>
    /\ UNCHANGED <<extractVars, printVars>>

Next ==
    \/ OpenPdf
    \/ OpenPdfFails
    \/ ExtractRaises
    \/ MarkerPage
    \/ ContinuationPage
    \/ OrphanPage
    \/ EndOfInput
    \/ SecondRun

Spec == Init /\ [][Next]_vars

(***************************************************************************)
(* Properties of split_pdf_by_dz                                           *)
(***************************************************************************)
\* the DZ code of page i, None when it has none
MarkerOf(i) == extract_dz_code(pages[i].text)

\* the pages that carry a DZ code
MarkerPages == {i \in 1..Len(pages) : ~pages[i].raises /\ MarkerOf(i) # None}

\* the first marker page after page i, or one past the end of the input
GroupEnd(i) == Min({j \in MarkerPages : j > i} \cup {Len(pages) + 1})

\* the k-th marker page
KthMarkerPage(k) ==
    CHOOSE i \in MarkerPages : Cardinality({j \in MarkerPages : j < i}) = k - 1

\* the pages a, a+1, ..., b - 1
PagesFromTo(a, b) == [i \in 1..(b - a) |-> a + i - 1]

RECURSIVE ConcatPages(_)
ConcatPages(groups) ==
    IF groups = <<>> THEN <<>>
    ELSE Head(groups).pages \o ConcatPages(Tail(groups))

\* C1: an input without orphan pages and with N marker pages is flushed as
\* exactly N groups, the k-th being the k-th marker page and the pages up to
\* the next marker page or the end of the input.
C1_GroupsPerMarker ==
    (pc = "done" /\ (pages = <<>> \/ 1 \in MarkerPages)) =>
        /\ Len(flushed) = Cardinality(MarkerPages)
        /\ Len(save_calls) = Cardinality(MarkerPages)
        /\ \A k \in 1..Len(flushed) :
              LET m == KthMarkerPage(k)
              IN /\ flushed[k].dz_code = MarkerOf(m)
                 /\ flushed[k].pages = PagesFromTo(m, GroupEnd(m))

C1_Witness ==
    /\ pc = "done"
    /\ 1 \in MarkerPages
    /\ Cardinality(MarkerPages) = 2
    /\ Len(pages) = 4
    /\ Len(flushed) = 2
    /\ Len(flushed[1].pages) = 2

\* the page being looked at is an orphan: no DZ code and no open group
AtOrphan ==
    /\ InLoop
    /\ ~pages[page_num].raises
    /\ MarkerOf(page_num) = None
    /\ current_client = <<>>

\* the pages before the first marker page (all pages when there is none)
LeadingPages == {i \in 1..Len(pages) : \A j \in MarkerPages : i < j}

\* C2: a marker-less page met with no open group is dropped with exactly one
\* warning and the pass stays in NoGroup; it is in no flushed group; an input
\* without any marker page ends with nothing written, no error and one
\* warning per page.
C2_OrphansDropped ==
    /\ [][AtOrphan =>
            /\ warnings' = warnings + 1
            /\ current_client' = <<>>
            /\ pc' = "loop"
            /\ page_num' = page_num + 1
            /\ UNCHANGED <<dirs, files, save_calls, flushed, error>>]_vars
    /\ [](pc = "done" =>
            /\ warnings = Cardinality(LeadingPages)
            /\ \A k \in 1..Len(flushed) :
                  Range(flushed[k].pages) \cap LeadingPages = {}
            /\ MarkerPages = {} =>
                  /\ save_calls = <<>>
                  /\ flushed = <<>>
                  /\ error = "none"
                  /\ warnings = Len(pages))

C2_Witness ==
    /\ pc = "done"
    /\ Len(pages) = 3
    /\ MarkerPages = {}
    /\ warnings = 3
    /\ flushed = <<>>

\* C3: every group handed to save_client_document has a non-empty page list
\* that starts with the marker page that opened it, so the 'No pages to save'
\* branch is never taken.
C3_NonEmptyAtFlush ==
    /\ ~no_pages_taken
    /\ \A k \in 1..Len(save_calls) :
          /\ save_calls[k].pages # <<>>
          /\ save_calls[k].pages[1] \in MarkerPages
          /\ MarkerOf(save_calls[k].pages[1]) = save_calls[k].dz_code
          /\ save_calls[k].outcome # "no_pages"

C3_Witness ==
    /\ Len(save_calls) = 2
    /\ Len(save_calls[2].pages) = 1
    /\ pc = "done"

\* the marker pages that carry the DZ code m
PagesWithMarker(m) == {i \in MarkerPages : MarkerOf(i) = m}

Max(S) == CHOOSE x \in S : \A y \in S : y <= x

\* m is on two marker pages with a page of another DZ code in between
Recurs(m) ==
    \E i, k \in PagesWithMarker(m) :
        \E j \in MarkerPages : i < j /\ j < k /\ MarkerOf(j) # m

\* C4: when a DZ code recurs after another DZ code, the later occurrence is a
\* group of its own and after a successful run the output file of that DZ
\* code holds exactly the pages of the last group opened with it; the pages
\* of the earlier groups with that DZ code are in no output file.
C4_LastGroupWins ==
    pc = "done" =>
        \A m \in Markers :
            Recurs(m) =>
                LET last == Max(PagesWithMarker(m))
                IN /\ files[output_path(m)] =
                          [exists |-> TRUE,
                           content |-> PagesFromTo(last, GroupEnd(last)),
                           intact |-> TRUE]
                   /\ \A i \in PagesWithMarker(m) \ {last} :
                         /\ \A p \in Paths : i \notin Range(files[p].content)
                         /\ \E k \in 1..Len(flushed) :
                               flushed[k].pages = PagesFromTo(i, GroupEnd(i))

C4_Witness ==
    /\ pc = "done"
    /\ run = 1
    /\ Len(pages) = 4
    /\ \E m \in Markers : Recurs(m) /\ 1 \in PagesWithMarker(m)
    /\ Len(flushed) = 3

\* C5: a second run of split_pdf_by_dz on the same input and output root
\* leaves the output directory (sub-directories, files, their pages) as the
\* first run left it.
C5_Idempotent ==
    (run = 2 /\ pc = "done") =>
        /\ out_exists
        /\ dirs = dirs1
        /\ files = files1

C5_Witness ==
    /\ run = 2
    /\ pc = "done"
    /\ Len(flushed) = 2
    /\ \E p \in Paths : files[p] = StaleFile
    /\ \E p \in Paths : files[p].exists /\ files[p] # StaleFile

\* extract_text() fails on the page being looked at: it raises, or it yields
\* no text at all
AtUnreadable ==
    /\ InLoop
    /\ pages[page_num].raises \/ pages[page_num].text = <<>>

\* the page being looked at is handled as a page without a DZ code and the
\* run goes on with the next page
TreatedAsMarkerless ==
    /\ pc' = "loop"
    /\ page_num' = page_num + 1
    /\ UNCHANGED <<dirs, files, save_calls, flushed, error>>
    /\ IF current_client # <<>>
       THEN /\ current_client' =
                   <<[current_client[1] EXCEPT
                         !.pages = Append(current_client[1].pages, page_num)]>>
            /\ UNCHANGED warnings
       ELSE /\ current_client' = <<>>
            /\ warnings' = warnings + 1

\* C6 as stated: a page whose text extraction fails (extract_text raises or
\* yields no usable text) is treated as marker-less and the run continues.
C6_UnreadableContinues == [][AtUnreadable => TreatedAsMarkerless]_vars

\* C6 as amended: a page whose extraction yields an empty text is treated as
\* marker-less and the run continues; when extract_text raises, the
\* exception leaves split_pdf_by_dz: the run stops at that page, no warning
\* is recorded, the open group is not flushed and nothing is written.
C6_UnreadableAmended ==
    [][/\ (InLoop /\ ~pages[page_num].raises /\ pages[page_num].text = <<>>)
            => TreatedAsMarkerless
       /\ (InLoop /\ pages[page_num].raises) =>
            /\ pc' = "failed"
            /\ error' = "extract"
            /\ UNCHANGED <<page_num, current_client, warnings, dirs, files,
                           save_calls, flushed>>]_vars

\* the run was aborted by extract_text with a group open, an empty-text
\* page having joined that group before
C6_Witness ==
    /\ pc = "failed"
    /\ error = "extract"
    /\ current_client # <<>>
    /\ \E i \in Range(current_client[1].pages) : pages[i].text = <<>>
    /\ flushed = <<>>

\* the step is a call of save_client_document that raised
SaveFailed ==
    /\ Len(save_calls') = Len(save_calls) + 1
    /\ save_calls'[Len(save_calls')].outcome \in
           {"mkdir_fail", "open_fail", "write_fail"}

\* nothing happens once split_pdf_by_dz was left by an exception
Halted == pc = "failed" => UNCHANGED vars

\* C7 as stated: a failing write halts the run; every group flushed before
\* it is unchanged on storage, no later group is written and no later page
\* is processed.
C7_WriteFailureKeepsFlushed ==
    [][/\ Halted
       /\ SaveFailed =>
            /\ pc' = "failed"
            /\ error' = "write"
            /\ UNCHANGED <<flushed, page_num>>
            /\ \A k \in 1..Len(flushed) :
                  files'[output_path(flushed[k].dz_code)] =
                      files[output_path(flushed[k].dz_code)]]_vars

\* C7 as amended: as stated, except that the output file of an earlier
\* group with the same DZ code as the failing group is left cut short when
\* the failure comes after the file was opened for writing; all other files
\* are unchanged.
C7_WriteFailureAmended ==
    [][/\ Halted
       /\ SaveFailed =>
            LET failing == save_calls'[Len(save_calls')]
            IN /\ pc' = "failed"
               /\ error' = "write"
               /\ UNCHANGED <<flushed, page_num>>
               /\ \A p \in Paths :
                     p # output_path(failing.dz_code) => files'[p] = files[p]
               /\ failing.outcome # "write_fail" => files' = files
               /\ failing.outcome = "write_fail" =>
                     /\ ~files'[output_path(failing.dz_code)].intact
                     /\ Len(files'[output_path(failing.dz_code)].content)
                            < Len(failing.pages)]_vars

\* a write failed on a group whose DZ code had been flushed before
C7_Witness ==
    /\ pc = "failed"
    /\ error = "write"
    /\ run = 1
    /\ Len(flushed) = 2
    /\ save_calls[3].outcome = "write_fail"
    /\ save_calls[3].dz_code = flushed[1].dz_code
    /\ ~files[output_path(flushed[1].dz_code)].intact

\* C10: at most one group is open; once a group is open the pass never goes
\* back to NoGroup; after a successful run the flushed groups, in flush
\* order, are the input pages from the first marker page on, none lost,
\* duplicated or reordered.
C10_PageConservation ==
    /\ [](Len(current_client) <= 1)
    /\ [][(current_client # <<>> /\ run' = run)
              => current_client' # <<>>]_vars
    /\ [](pc = "done" =>
            ConcatPages(flushed) =
                IF MarkerPages = {} THEN <<>>
                ELSE PagesFromTo(Min(MarkerPages), Len(pages) + 1))

C10_Witness ==
    /\ pc = "done"
    /\ Len(pages) = 4
    /\ Min(MarkerPages \cup {9}) = 2
    /\ Len(flushed) = 2
    /\ ConcatPages(flushed) = <<2, 3, 4>>

(***************************************************************************)
(* print.py: print_pdfs_in_folders                                         *)
(***************************************************************************)
\* code points of the characters that occur in the names below
Ord(c) ==
    CASE c = "." -> 46 [] c = "0" -> 48 [] c = "1" -> 49 [] c = "2" -> 50
      [] c = "B" -> 66 [] c = "D" -> 68 [] c = "F" -> 70 [] c = "P" -> 80
      [] c = "Z" -> 90 [] c = "a" -> 97 [] c = "b" -> 98 [] c = "d" -> 100
      [] c = "f" -> 102 [] c = "p" -> 112 [] c = "t" -> 116 [] c = "x" -> 120
      [] c = "z" -> 122

\* str.lower() on one character
LowerChar(c) ==
    CASE c = "B" -> "b" [] c = "D" -> "d" [] c = "F" -> "f"
      [] c = "P" -> "p" [] c = "Z" -> "z" [] OTHER -> c

\* str.lower()
Lower(name) == [i \in 1..Len(name) |-> LowerChar(name[i])]

\* str.endswith
EndsWith(name, suffix) ==
    /\ Len(name) >= Len(suffix)
    /\ SubSeq(name, Len(name) - Len(suffix) + 1, Len(name)) = suffix

\* f.lower().endswith(".pdf")
IsPdfName(name) == EndsWith(Lower(name), <<".", "p", "d", "f">>)

\* a < b on Python strings: code point order, a proper prefix comes first
RECURSIVE StrLess(_, _)
StrLess(a, b) ==
    IF b = <<>> THEN FALSE
    ELSE IF a = <<>> THEN TRUE
    ELSE IF Ord(Head(a)) # Ord(Head(b)) THEN Ord(Head(a)) < Ord(Head(b))
    ELSE StrLess(Tail(a), Tail(b))

\* insert x into the sorted sequence s
RECURSIVE Insert(_, _)
Insert(x, s) ==
    IF s = <<>> THEN <<x>>
    ELSE IF StrLess(x, Head(s)) THEN <<x>> \o s
    ELSE <<Head(s)>> \o Insert(x, Tail(s))

\* the listing used as os.listdir returned it
sorted_Unsorted(s) == s

\* sorted(list of names)
RECURSIVE sorted(_)
sorted(s) == IF s = <<>> THEN <<>> ELSE Insert(Head(s), sorted(Tail(s)))

\* the entries base_directory can hold, and the files a folder can hold
EntryNames == { <<"D", "Z", "1">>, <<"D", "Z", "1", "0">>, <<"D", "Z", "2">> }

FileNames ==
    { <<"B", ".", "P", "D", "F">>,
      <<"a", ".", "p", "d", "f">>,
      <<"a", ".", "t", "x", "t">> }

\* the orders in which os.listdir can return at most n of the names of S
Listings(S, n) ==
    {l \in SeqsUpTo(S, n) : \A i, j \in 1..Len(l) : i # j => l[i] # l[j]}

\* time.sleep(3)
SleepSeconds == 3

\* the ways PrinterSystem.print_file can end
PrintOutcomes == {"sent", "lp_failed", "unsupported_os", "win32_error"}

\* PrinterSystem.print_file: True when the job was handed over, False on
\* every failure (the exception is logged, never raised)
print_file(outcome) == outcome = "sent"

InitPrint ==
    /\ base_exists \in BOOLEAN
    /\ base_listing \in Listings(EntryNames, Cardinality(EntryNames))
    /\ is_dir \in [EntryNames -> BOOLEAN]
    /\ folder_listing \in [EntryNames -> Listings(FileNames, MaxFolderFiles)]
    /\ base_exists = FALSE => base_listing = <<>>
    /\ \A e \in EntryNames :
          /\ e \notin Range(base_listing) => is_dir[e] = FALSE
          /\ is_dir[e] = FALSE => folder_listing[e] = <<>>
    /\ ppc = "start"
    /\ folders = <<>>
    /\ folder = <<>>
    /\ pdf_files = <<>>
    /\ jobs = <<>>
    /\ total_printed = 0
    /\ failed_prints = <<>>
    /\ slept = 0
    /\ SplitIdle
    /\ ExtractIdle

\* lines 154-156: base_directory does not exist
BaseMissing ==
    /\ ppc = "start"
    /\ ~base_exists
    /\ ppc' = "done"
    /\ UNCHANGED <<base_exists, base_listing, is_dir, folder_listing, folders,
                   folder, pdf_files, jobs, total_printed, failed_prints,
                   slept>>
    /\ UNCHANGED <<splitVars, extractVars>>

\* lines 158-167: the sub-directories of base_directory, sorted
ListFolders ==
    /\ ppc = "start"
    /\ base_exists
    /\ folders' = sorted(SelectSeq(base_listing, LAMBDA f : is_dir[f]))
    /\ total_printed' = 0
    /\ failed_prints' = <<>>
    /\ ppc' = "folders"
    /\ UNCHANGED <<base_exists, base_listing, is_dir, folder_listing, folder,
                   pdf_files, jobs, slept>>
    /\ UNCHANGED <<splitVars, extractVars>>

\* lines 169-182: the next folder, its PDF files sorted; a folder without
\* PDF files is skipped
EnterFolder ==
    /\ ppc = "folders"
    /\ folders # <<>>
    /\ folder' = Head(folders)
    /\ folders' = Tail(folders)
    /\ pdf_files' = sorted(SelectSeq(folder_listing[Head(folders)], IsPdfName))
    /\ ppc' = IF pdf_files' = <<>> THEN "folders" ELSE "files"
    /\ UNCHANGED <<base_exists, base_listing, is_dir, folder_listing, jobs,
                   total_printed, failed_prints, slept>>
    /\ UNCHANGED <<splitVars, extractVars>>

\* lines 184-195: one file is handed to print_file, then time.sleep(3)
PrintOne ==
    /\ ppc = "files"
    /\ LET pdf_file == Head(pdf_files)
           pdf_path == <<folder, pdf_file>>
       IN \E outcome \in PrintOutcomes :
             /\ jobs' = Append(jobs, pdf_path)
             /\ IF print_file(outcome)
                THEN /\ total_printed' = total_printed + 1
                     /\ UNCHANGED failed_prints
                ELSE /\ failed_prints' = Append(failed_prints, pdf_path)
                     /\ UNCHANGED total_printed
    /\ slept' = slept + SleepSeconds
    /\ pdf_files' = Tail(pdf_files)
    /\ ppc' = IF Tail(pdf_files) = <<>> THEN "folders" ELSE "files"
    /\ UNCHANGED <<base_exists, base_listing, is_dir, folder_listing, folders,
                   folder>>
    /\ UNCHANGED <<splitVars, extractVars>>

\* lines 197-204: every folder was visited, the summary is printed
Summary ==
    /\ ppc = "folders"
    /\ folders = <<>>
    /\ ppc' = "done"
    /\ UNCHANGED <<base_exists, base_listing, is_dir, folder_listing, folders,
                   folder, pdf_files, jobs, total_printed, failed_prints,
                   slept>>
    /\ UNCHANGED <<splitVars, extractVars>>

NextPrint ==
    \/ BaseMissing
    \/ ListFolders
    \/ EnterFolder
    \/ PrintOne
    \/ Summary

SpecPrint == InitPrint /\ [][NextPrint]_vars

\* the PDF files of the sub-directories of base_directory
PdfPaths ==
    {<<d, f>> \in EntryNames \X FileNames :
        /\ d \in Range(base_listing)
        /\ is_dir[d]
        /\ f \in Range(folder_listing[d])
        /\ IsPdfName(f)}

\* path p is visited before path q: folders in name order, files in name
\* order within a folder
PathBefore(p, q) ==
    \/ StrLess(p[1], q[1])
    \/ p[1] = q[1] /\ StrLess(p[2], q[2])

\* C8: print_pdfs_in_folders submits exactly one job per PDF file of every
\* sub-directory, folders in sorted order and files in sorted order within
\* each, sleeps a fixed time after each submission, goes on after a failed
\* job, and ends with total_printed + len(failed_prints) = files visited.
C8_OneJobPerPdf ==
    (ppc = "done" /\ base_exists) =>
        /\ Range(jobs) = PdfPaths
        /\ Len(jobs) = Cardinality(PdfPaths)
        /\ \A i, j \in 1..Len(jobs) : i < j => PathBefore(jobs[i], jobs[j])
        /\ slept = SleepSeconds * Len(jobs)
        /\ total_printed + Len(failed_prints) = Len(jobs)
        /\ Range(failed_prints) \subseteq Range(jobs)

\* three folders listed out of order, the first job failed, later ones sent
C8_Witness ==
    /\ ppc = "done"
    /\ base_listing = << <<"D", "Z", "2">>, <<"D", "Z", "1", "0">>,
                         <<"D", "Z", "1">> >>
    /\ Len(jobs) = 4
    /\ failed_prints = <<jobs[1]>>
    /\ total_printed = 3
    /\ jobs[1][2] = <<"B", ".", "P", "D", "F">>

====
